---- MODULE Spec2Model ----
(***************************************************************************)
(* Voice interaction front-end of SMARTII.                                 *)
(*                                                                         *)
(*  - script.js : the command recognition (state.recognition), the text-   *)
(*    to-speech path (speakText), the message pipeline (processUserMessage)*)
(*    and the BrowserWakeWordDetector class.                               *)
(*  - FullDuplexAudioEngine (unnamed/part_004): capture/playback flags,    *)
(*    VAD, interrupt.                                                      *)
(*                                                                         *)
(* JavaScript is single threaded: every handler (a user event, a timer     *)
(* callback, an engine callback) runs to completion, so each one is one    *)
(* action.  A handler is written as an operator from a world record w      *)
(* (the program state before the call) to the world after it, so that the  *)
(* calls a handler makes compose in source order.                          *)
(*                                                                         *)
(* The browser engines are the environment.  A SpeechRecognition object is *)
(*   "idle"               not started                                      *)
(*   "starting"           start() called, start event not yet delivered    *)
(*   "running"            start event delivered                            *)
(*   "stopping_unstarted" stop() called before the start event             *)
(*   "stopping"           stop() called, may still flush a final result    *)
(*   "ending"             error event delivered, end event still to come   *)
(* start() throws InvalidStateError unless the object is "idle"; stop() is *)
(* a no-op unless it is "starting" or "running".                           *)
(***************************************************************************)
EXTENDS Integers, Sequences, FiniteSets, TLC

\* ---------------------------------------------------------------- bounds
\* pending setTimeout callbacks of the command pipeline (of the detector) up
\* to which the user and the engines produce new input
MaxPending == 2
\* cancelled utterances whose completion event is still to be delivered
MaxStale == 1
\* backend requests awaited at once
MaxInflight == 1
\* utterances created by FullDuplexAudioEngine.startSpeaking
MaxUtterances == 2
\* consecutive transient failures of the wake-word engine
MaxWakeFailures == 7
\* words of a transcript heard by the wake-word detector
MaxWords == 3
\* results of one event of the wake-word engine that contain a wake word
MaxMatches == 3

\* ------------------------------------------------------ program constants
\* spec.md 4.3: default K of the restart rate limit
MaxRestartsPerWindow == 5
\* vadConsecutiveFrames
vadConsecutiveFrames == 3

\* ------------------------------------------------------------- variables
VARIABLES
    state,            \* script.js `state`: flags and settings
    recognition,      \* state.recognition: engine state of the command recognition
    synthesis,        \* state.synthesis as used by speakText: [cur, stale]
    timers,           \* pending setTimeout callbacks of script.js, by kind
    inflight,         \* processUserMessage calls awaiting sendMessageToBackend
    detector,         \* BrowserWakeWordDetector fields: [isActive]
    wakeRecognition,  \* detector.recognition: engine state
    history,          \* observation only: what happened, never read by a handler
    heard,            \* the result the detector's engine delivers, and what the
                      \* wake-word callback was called with (observation)
    engine,           \* FullDuplexAudioEngine fields
    utterances,       \* speechSynthesis as used by FullDuplexAudioEngine: status by utterance id
    vadTimers,        \* pending 1000 ms vadDetected reset timers
    sent,             \* observation only: FullDuplexAudioEngine effects per utterance
    frames            \* observation only: the audio frames processed while listening

scriptVars == <<state, recognition, synthesis, timers, inflight, detector, wakeRecognition, history,
                heard>>
engineVars == <<engine, utterances, vadTimers, sent, frames>>
vars == <<state, recognition, synthesis, timers, inflight, detector, wakeRecognition, history, heard,
          engine, utterances, vadTimers, sent, frames>>

\* timers set by the command pipeline / by the wake-word detector and its glue
CommandTimers == {"resume", "noSpeechContinuous", "noSpeechSingle", "endRestart",
                  "retryContinuous", "retrySingle", "forceRetryContinuous", "forceRetrySingle",
                  "dispatch"}
WakeTimers == {"wakeCallback", "wakePause", "wakeError", "wakeEnd", "wakeInit"}
TimerKinds == CommandTimers \cup WakeTimers

\* The engine is capturing audio (or about to): started and not told to stop.
Capturing(r) == r \in {"starting", "running"}

\* ------------------------------------------------------------ world record
World == [state |-> state, recognition |-> recognition, synthesis |-> synthesis,
          timers |-> timers, inflight |-> inflight, detector |-> detector,
          wakeRecognition |-> wakeRecognition, history |-> history, heard |-> heard]

Commit(w) ==
    /\ state' = w.state
    /\ recognition' = w.recognition
    /\ synthesis' = w.synthesis
    /\ timers' = w.timers
    /\ inflight' = w.inflight
    /\ detector' = w.detector
    /\ wakeRecognition' = w.wakeRecognition
    /\ heard' = w.heard
    /\ history' = [w.history EXCEPT
            !.recovering = @ /\ w.state.isListening /\ ~Capturing(w.recognition)]
    /\ UNCHANGED engineVars

RECURSIVE Sum(_, _)
Sum(f, S) == IF S = {} THEN 0 ELSE LET k == CHOOSE x \in S : TRUE IN f[k] + Sum(f, S \ {k})

\* The bounds of the model.  New input (a user action, a recognition result,
\* a failure or a spontaneous end of an engine) arrives only while fewer than
\* MaxPending timers are pending; what the program does in reaction (timer
\* callbacks, the start and end events of an engine it started or stopped) is
\* never held back by the timer bound.
CommandRoom == Sum(timers, CommandTimers) < MaxPending
WakeRoom == Sum(timers, WakeTimers) < MaxPending

WithinBounds(w) ==
    /\ w.synthesis.stale <= MaxStale
    /\ w.inflight <= MaxInflight

\* setTimeout(callback-of-kind-k, delay)
setTimeout(w, k) == [w EXCEPT !.timers[k] = @ + 1]
\* the callback of kind k has been taken off the timer queue
fired(w, k) == [w EXCEPT !.timers[k] = @ - 1]


\* ===================================================================
\*                         script.js
\* ===================================================================

\* ------------------------------------------- SpeechRecognition methods
\* state.recognition.stop()
recognition_stop(w) ==
    IF w.recognition = "starting" THEN [w EXCEPT !.recognition = "stopping_unstarted"]
    ELSE IF w.recognition = "running" THEN [w EXCEPT !.recognition = "stopping"]
    ELSE w

\* try { state.recognition.start() } catch (e) { log }  -- the exception is swallowed
recognition_try_start(w) ==
    IF w.recognition = "idle" THEN [w EXCEPT !.recognition = "starting"] ELSE w

\* this.recognition.stop() of the wake-word detector
wake_recognition_stop(w) ==
    IF w.wakeRecognition = "starting" THEN [w EXCEPT !.wakeRecognition = "stopping_unstarted"]
    ELSE IF w.wakeRecognition = "running" THEN [w EXCEPT !.wakeRecognition = "stopping"]
    ELSE w

\* try { this.recognition.start() } catch (e) {}
wake_recognition_try_start(w) ==
    IF w.wakeRecognition = "idle" THEN [w EXCEPT !.wakeRecognition = "starting"] ELSE w

\* ------------------------------------------------ BrowserWakeWordDetector
\* start(): returns false when already active; isActive is set before the
\* engine call and is not reset when the call throws.
detector_start(w) ==
    IF w.detector.isActive THEN w
    ELSE wake_recognition_try_start(
            [w EXCEPT !.detector.isActive = TRUE,
                      !.history.wakeFailures = 0])

\* stop()
detector_stop(w) ==
    IF ~w.detector.isActive THEN w
    ELSE wake_recognition_stop([w EXCEPT !.detector.isActive = FALSE])

\* --------------------------------------------------------- voice control
\* mutant: stopListening() leaves isRecognitionActive as it is
stopListening_keepsActive(w) ==
    recognition_stop(
        [w EXCEPT !.state.isListening = FALSE,
                  !.state.continuousListening = FALSE,
                  !.history.deactivated = TRUE])

\* stopListening()
stopListening(w) ==
    recognition_stop(
        [w EXCEPT !.state.isListening = FALSE,
                  !.state.isRecognitionActive = FALSE,
                  !.state.continuousListening = FALSE,
                  !.history.deactivated = TRUE])

\* the two retry timers of startListening carry the `continuous` argument
retryKind(continuous) == IF continuous THEN "retryContinuous" ELSE "retrySingle"
forceRetryKind(continuous) == IF continuous THEN "forceRetryContinuous" ELSE "forceRetrySingle"

\* startListening(continuous).  The message of the InvalidStateError thrown by
\* start() on a started object is "... recognition has already started.", so
\* the catch block takes its 'already started' branch.
startListening(w, continuous) ==
    IF w.state.isRecognitionActive
    THEN setTimeout(recognition_stop(w), retryKind(continuous))
    ELSE LET w1 == [w EXCEPT !.state.continuousListening = continuous,
                             !.state.isListening = TRUE]
         IN  IF w1.recognition = "idle"
             THEN [w1 EXCEPT !.recognition = "starting",
                             !.state.isRecognitionActive = TRUE]
             ELSE setTimeout([w1 EXCEPT !.state.isListening = FALSE,
                                        !.state.isRecognitionActive = FALSE],
                             forceRetryKind(continuous))

\* An explicit activation by the user (mic button, keyboard shortcut, wake word).
activated(w) == [w EXCEPT !.history.deactivated = FALSE]

\* ------------------------------------------------------- text to speech
\* state.synthesis.cancel(): the utterance in progress is removed; the engine
\* still delivers a completion event (end or error) for it later.
synthesis_cancel(w) ==
    IF w.synthesis.cur = "speaking"
    THEN [w EXCEPT !.synthesis.cur = "none", !.synthesis.stale = @ + 1]
    ELSE [w EXCEPT !.synthesis.cur = "none"]

\* state.synthesis.speak(utterance)
synthesis_speak(w) == [w EXCEPT !.synthesis.cur = "speaking"]

\* speakText(text)
speakText(w) ==
    LET w1 == IF w.detector.isActive THEN detector_stop(w) ELSE w
        w2 == IF w1.state.isListening
              THEN [recognition_stop(w1) EXCEPT !.state.isListening = FALSE,
                                                !.state.isRecognitionActive = FALSE]
              ELSE w1
        w3 == [w2 EXCEPT !.state.isSpeaking = TRUE]
    IN  synthesis_speak(synthesis_cancel(w3))

\* mutant: the completion handlers arm no timer
utterance_completed_noresume(w) == [w EXCEPT !.state.isSpeaking = FALSE]

\* utterance.onend / utterance.onerror: the two handlers differ in the delay
\* of the timer only (2000 ms / 1500 ms).
utterance_completed(w) ==
    LET w1 == [w EXCEPT !.state.isSpeaking = FALSE]
    IN  IF w1.state.alwaysListening THEN setTimeout(w1, "resume") ELSE w1

\* the callback of the post-speech timer
resume_callback(w) ==
    LET w1 == startListening(w, FALSE)
    IN  IF ~w1.detector.isActive THEN detector_start(w1) ELSE w1

\* ----------------------------------------------------- message pipeline
Texts == {"command", "stop", "blank"}
\* processUserMessage(text) up to its await; "blank" is a text whose trim() is
\* empty, "stop" one that contains a stop/deactivate phrase.
processUserMessage(w, text) ==
    IF text = "blank" THEN w
    ELSE LET w1 == IF w.state.isListening
                   THEN [recognition_stop(w) EXCEPT !.state.isListening = FALSE,
                                                    !.state.isRecognitionActive = FALSE]
                   ELSE w
         IN  IF text = "stop"
             THEN LET w2 == IF w1.state.voiceEnabled THEN speakText(w1) ELSE w1
                  IN  stopListening([w2 EXCEPT !.state.alwaysListening = FALSE])
             ELSE [w1 EXCEPT !.inflight = @ + 1]

\* the continuation of processUserMessage after `await sendMessageToBackend`
\* (sendMessageToBackend catches every failure and returns a text)
processUserMessage_reply(w) ==
    LET w1 == [w EXCEPT !.inflight = @ - 1]
    IN  IF w1.state.voiceEnabled THEN speakText(w1) ELSE w1

\* ------------------------------------------ command recognition handlers
\* recognition.onstart
recognition_onstart(w) ==
    [w EXCEPT !.state.isListening = TRUE, !.state.isRecognitionActive = TRUE]

\* recognition.onresult, by the concatenation of the final transcripts of the
\* event: "" if it has none (interim results only, or empty finals), "blank" a
\* text of white space, which is a true value for `if (finalTranscript)`.  The
\* text its 200 ms timer carries is drawn when the timer fires.
recognition_onresult(w, finalTranscript) ==
    IF finalTranscript = "" THEN w
    ELSE LET w1 == IF ~w.state.continuousListening THEN stopListening(w) ELSE w
         IN  setTimeout(w1, "dispatch")

RecognitionErrors == {"no-speech", "aborted", "not-allowed", "network"}

\* recognition.onerror
recognition_onerror(w, error) ==
    LET w1 == [w EXCEPT !.state.isRecognitionActive = FALSE]
    IN  IF error = "aborted" THEN w1
        ELSE IF error = "no-speech"
        THEN LET w2 == [w1 EXCEPT !.history.recovering = TRUE]
             IN  IF w2.state.continuousListening /\ w2.state.isListening
                 THEN setTimeout(w2, "noSpeechContinuous")
                 ELSE setTimeout(w2, "noSpeechSingle")
        ELSE stopListening(w1)

\* recognition.onend
recognition_onend(w) ==
    LET w1 == [w EXCEPT !.state.isRecognitionActive = FALSE]
    IN  IF w1.state.isListening /\ ~w1.state.isSpeaking
        THEN setTimeout(w1, "endRestart")
        ELSE w1

\* the 300 ms callbacks of the no-speech branch
noSpeechContinuous_callback(w) ==
    IF w.state.continuousListening /\ w.state.isListening
    THEN recognition_try_start(w) ELSE w

\* mutant: the single-shot branch only shows its status message
noSpeechSingle_callback_norestart(w) == w

noSpeechSingle_callback(w) ==
    IF w.state.isListening /\ ~w.state.continuousListening
    THEN recognition_try_start(w) ELSE w

\* the 100 ms callback of onend; its start() is outside any try block, an
\* exception ends the callback and changes nothing
endRestart_callback(w) ==
    IF w.state.isListening /\ ~w.state.isRecognitionActive
    THEN recognition_try_start(w) ELSE w


\* ------------------------------------------------------------- strings
\* A string is the sequence of its characters.
hey == <<"h", "e", "y">>
hi == <<"h", "i">>
smart == <<"s", "m", "a", "r", "t">>
smartii == <<"s", "m", "a", "r", "t", "i", "i">>
computer == <<"c", "o", "m", "p", "u", "t", "e", "r">>
space == <<" ">>

\* String.prototype.toLowerCase on the letters that occur in capitals
toLowerCase(text) ==
    LET LowerCase == [H |-> "h", E |-> "e", Y |-> "y", S |-> "s"]
    IN  [i \in DOMAIN text |->
            IF text[i] \in DOMAIN LowerCase THEN LowerCase[text[i]] ELSE text[i]]

\* String.prototype.trim
trim(text) ==
    LET solid == {i \in DOMAIN text : text[i] # " "}
    IN  IF solid = {} THEN <<>>
        ELSE SubSeq(text, CHOOSE i \in solid : \A j \in solid : i <= j,
                          CHOOSE i \in solid : \A j \in solid : j <= i)

\* part occurs in text at index i
occursAt(text, i, part) ==
    /\ i >= 1 /\ i + Len(part) - 1 <= Len(text)
    /\ SubSeq(text, i, i + Len(part) - 1) = part

\* text.includes(part)
includes(text, part) == \E i \in DOMAIN text : occursAt(text, i, part)

\* /first\s+second/.test(text)
spaced(text, first, second) ==
    \E i \in DOMAIN text : \E j \in DOMAIN text :
        /\ occursAt(text, i, first)
        /\ j > i + Len(first)
        /\ \A k \in (i + Len(first))..(j - 1) : text[k] = " "
        /\ occursAt(text, j, second)

\* this.wakeWords of the detector
wakeWords == {hey \o space \o smartii, hey \o space \o smart, smartii, computer}

\* some pattern of fuzzyPatterns matches the text
fuzzyPatterns(text) ==
    \/ spaced(text, hey, smart)
    \/ spaced(text, <<"h", "e", "l", "l", "o">>, smart)
    \/ spaced(text, hi, smart)
    \/ spaced(text, <<"o", "k", "a", "y">>, smart)
    \/ includes(text, computer)

\* _isWakeWord(text)
isWakeWord(text) ==
    LET t == trim(toLowerCase(text))
    IN  (\E wakeWord \in wakeWords : includes(t, wakeWord)) \/ fuzzyPatterns(t)

\* ------------------------------------------------ wake-word integration
\* the callback registered with wakeWordDetector.onWakeWord
onWakeWord_callback(w) == setTimeout(detector_stop(w), "wakeCallback")

\* mutant: the 500 ms timer starts command listening whatever the flags say
wakeCallback_callback_unguarded(w) == startListening(activated(w), FALSE)

\* its 500 ms timer
wakeCallback_callback(w) ==
    IF ~w.state.isListening /\ ~w.state.isRecognitionActive
    THEN startListening(activated(w), FALSE) ELSE w

\* detector recognition.onresult with one result that contains a wake word
wake_onresult(w) ==
    setTimeout(detector_stop(onWakeWord_callback(w)), "wakePause")

\* detector recognition.onresult for an event of which n results contain a
\* wake word: the loop body runs for each of them
RECURSIVE wake_onresults(_, _)
wake_onresults(w, n) == IF n = 0 THEN w ELSE wake_onresults(wake_onresult(w), n - 1)

\* detector recognition.onresult for an event with one result: the first
\* alternative's transcript is lower-cased and trimmed; on a match the
\* callback is called with it
detector_onresult(w, result) ==
    LET transcript == trim(toLowerCase(result.transcript))
        w1 == [w EXCEPT !.heard.handled = TRUE]
    IN  IF isWakeWord(transcript)
        THEN wake_onresult([w1 EXCEPT !.heard.called = TRUE, !.heard.arg = transcript])
        ELSE w1

\* the 1000 ms pause timer: if (this.isActive) this.start()
wakePause_callback(w) == IF w.detector.isActive THEN detector_start(w) ELSE w

\* detector recognition.onerror
wake_onerror(w, error) ==
    IF error \in {"no-speech", "aborted"} THEN w
    ELSE LET w1 == IF error = "not-allowed"
                   THEN [w EXCEPT !.history.wakeDenied = TRUE]
                   ELSE [w EXCEPT !.history.wakeFailures = @ + 1]
         IN  IF w1.detector.isActive /\ error # "not-allowed"
             THEN setTimeout(w1, "wakeError") ELSE w1

\* detector recognition.onend
wake_onend(w) == IF w.detector.isActive THEN setTimeout(w, "wakeEnd") ELSE w

\* the restart callbacks of the detector (1000 ms after an error, 500 ms after end)
wakeRestart_callback(w) ==
    IF w.detector.isActive THEN wake_recognition_try_start(w) ELSE w

\* ===================================================================
\*                    script.js : the actions
\* ===================================================================

Step(w) == WithinBounds(w) /\ Commit(w)

Fire(k) == timers[k] > 0

\* --- the user
\* mic button / space bar: toggleListening(); isMobile selects continuous mode
MicButton ==
    /\ CommandRoom
    /\ \E isMobile \in BOOLEAN :
        IF state.isListening
        THEN Step([stopListening(World) EXCEPT !.history.superseded = World.timers["resume"]])
        ELSE Step(startListening(activated(World), isMobile))

\* Ctrl+Shift+L
ContinuousShortcut ==
    /\ CommandRoom
    /\ IF state.continuousListening
       THEN Step([stopListening(World) EXCEPT !.history.superseded = World.timers["resume"]])
       ELSE Step(startListening(activated(World), TRUE))

\* Enter in the text input / send button
SendMessage == CommandRoom /\ \E text \in Texts : Step(processUserMessage(World, text))

\* the always-listening checkbox
AlwaysListeningToggle ==
    \E checked \in BOOLEAN :
        /\ checked # state.alwaysListening
        /\ Step([World EXCEPT !.state.alwaysListening = checked])

\* --- the backend
BackendReply == inflight > 0 /\ Step(processUserMessage_reply(World))

\* --- the synthesis engine
UtteranceOnEnd ==
    /\ synthesis.cur = "speaking"
    /\ Step(utterance_completed([World EXCEPT !.synthesis.cur = "none"]))

UtteranceOnError ==
    /\ synthesis.cur = "speaking"
    /\ Step(utterance_completed([World EXCEPT !.synthesis.cur = "none"]))

\* the completion event of an utterance removed by cancel()
CancelledUtteranceCompletes ==
    /\ synthesis.stale > 0
    /\ Step(utterance_completed([World EXCEPT !.synthesis.stale = @ - 1]))

\* --- the command recognition engine
RecognitionOnStart ==
    /\ recognition \in {"starting", "stopping_unstarted"}
    /\ Step(recognition_onstart(
            [World EXCEPT !.recognition = IF @ = "starting" THEN "running" ELSE "stopping"]))

RecognitionOnResult ==
    /\ CommandRoom
    /\ recognition \in {"running", "stopping"}
    /\ \E finalTranscript \in {""} \cup Texts :
        Step(recognition_onresult(World, finalTranscript))

\* 'no-speech' is reported after seconds of silence: the 300 ms timers of an
\* earlier no-speech termination have fired by then.
RecognitionOnError ==
    /\ CommandRoom
    /\ recognition # "idle" /\ recognition # "ending"
    /\ \E error \in RecognitionErrors :
        /\ error = "no-speech" =>
             /\ recognition = "running"
             /\ timers["noSpeechContinuous"] = 0 /\ timers["noSpeechSingle"] = 0
        /\ error = "not-allowed" => recognition \in {"starting", "stopping_unstarted"}
        /\ Step(recognition_onerror([World EXCEPT !.recognition = "ending"], error))

RecognitionOnEnd ==
    /\ recognition \in {"running", "stopping_unstarted", "stopping", "ending"}
    /\ recognition = "running" => CommandRoom
    /\ Step(recognition_onend([World EXCEPT !.recognition = "idle"]))

\* --- timers of the command recognition.  The end event follows the error
\* event at once, so a 300 ms no-speech timer never fires between the two.
NoSpeechContinuousTimer ==
    /\ Fire("noSpeechContinuous") /\ recognition # "ending"
    /\ Step(noSpeechContinuous_callback(fired(World, "noSpeechContinuous")))

NoSpeechSingleTimer ==
    /\ Fire("noSpeechSingle") /\ recognition # "ending"
    /\ Step(noSpeechSingle_callback(fired(World, "noSpeechSingle")))

EndRestartTimer ==
    /\ Fire("endRestart")
    /\ Step(endRestart_callback(fired(World, "endRestart")))

\* setTimeout(() => startListening(continuous), 300)
RetryTimer ==
    \E continuous \in BOOLEAN :
        /\ Fire(retryKind(continuous))
        /\ Step(startListening(fired(World, retryKind(continuous)), continuous))

\* setTimeout(() => { state.isRecognitionActive = false; startListening(continuous) }, 500)
ForceRetryTimer ==
    \E continuous \in BOOLEAN :
        /\ Fire(forceRetryKind(continuous))
        /\ Step(startListening(
                [fired(World, forceRetryKind(continuous)) EXCEPT !.state.isRecognitionActive = FALSE],
                continuous))

\* setTimeout(() => processUserMessage(finalTranscript), 200)
DispatchTimer ==
    /\ Fire("dispatch")
    /\ \E text \in Texts : Step(processUserMessage(fired(World, "dispatch"), text))

\* the post-speech timer; timers of one delay fire in the order they were set,
\* so the ones that were pending at a manual stop fire first
ResumeTimer ==
    /\ Fire("resume")
    /\ Step(resume_callback(
            [fired(World, "resume") EXCEPT !.history.superseded = IF @ > 0 THEN @ - 1 ELSE 0]))

\* --- the wake-word detector
WakeInitTimer ==
    /\ Fire("wakeInit")
    /\ Step(detector_start(fired(World, "wakeInit")))

WakeOnStart ==
    /\ wakeRecognition \in {"starting", "stopping_unstarted"}
    /\ Step([World EXCEPT !.wakeRecognition = IF @ = "starting" THEN "running" ELSE "stopping"])

WakeOnResult ==
    /\ WakeRoom
    /\ wakeRecognition \in {"running", "stopping"}
    /\ Step(wake_onresult(World))

\* one event with several results that contain a wake word
WakeOnResults ==
    /\ wakeRecognition = "running"
    /\ \E n \in 1..MaxMatches : Step(wake_onresults(World, n))

\* the engine delivers the result that is to be heard
WakeHears ==
    /\ ~heard.handled
    /\ wakeRecognition \in {"running", "stopping"}
    /\ Step(detector_onresult(World, heard.result))

WakeOnError ==
    /\ WakeRoom
    /\ wakeRecognition # "idle" /\ wakeRecognition # "ending"
    /\ \E error \in RecognitionErrors :
        /\ error = "no-speech" => wakeRecognition = "running"
        /\ error = "not-allowed" => wakeRecognition \in {"starting", "stopping_unstarted"}
        /\ error = "network" => history.wakeFailures < MaxWakeFailures
        /\ Step(wake_onerror([World EXCEPT !.wakeRecognition = "ending"], error))

WakeOnEnd ==
    /\ wakeRecognition \in {"running", "stopping_unstarted", "stopping", "ending"}
    /\ wakeRecognition = "running" => WakeRoom
    /\ Step(wake_onend([World EXCEPT !.wakeRecognition = "idle"]))

WakeErrorTimer ==
    /\ Fire("wakeError") /\ wakeRecognition # "ending"
    /\ Step(wakeRestart_callback(fired(World, "wakeError")))

WakeEndTimer ==
    /\ Fire("wakeEnd")
    /\ Step(wakeRestart_callback(fired(World, "wakeEnd")))

WakePauseTimer ==
    /\ Fire("wakePause")
    /\ Step(wakePause_callback(fired(World, "wakePause")))

WakeCallbackTimer ==
    /\ Fire("wakeCallback")
    /\ Step(wakeCallback_callback(fired(World, "wakeCallback")))

\* ------------------------------------------------------------ initial state
\* the page after load: state.settings.alwaysListening comes from localStorage
\* (default true); with it set, initWakeWordDetection arms its 1500 ms timer
ScriptLoadedToHear(always, toHear) ==
    /\ state = [isListening |-> FALSE, isSpeaking |-> FALSE,
                isRecognitionActive |-> FALSE, continuousListening |-> FALSE,
                alwaysListening |-> always, voiceEnabled |-> TRUE]
    /\ timers = [k \in TimerKinds |-> IF k = "wakeInit" /\ always THEN 1 ELSE 0]
    /\ recognition = "idle"
    /\ synthesis = [cur |-> "none", stale |-> 0]
    /\ inflight = 0
    /\ detector = [isActive |-> FALSE]
    /\ wakeRecognition = "idle"
    /\ history = [deactivated |-> FALSE, superseded |-> 0, recovering |-> FALSE,
                  wakeDenied |-> FALSE, wakeFailures |-> 0]
    /\ heard = toHear

\* nothing is said to the detector but what the actions say
NothingToHear == [result |-> [transcript |-> <<>>, isFinal |-> TRUE], handled |-> TRUE,
                  called |-> FALSE, arg |-> <<>>]

ScriptLoaded(always) == ScriptLoadedToHear(always, NothingToHear)

InitScript == \E always \in BOOLEAN : ScriptLoaded(always)

\* ===================================================================
\*                FullDuplexAudioEngine (unnamed/part_004)
\* ===================================================================
\* The engine's world: its fields, window.speechSynthesis as it uses it, its
\* pending timers, and what has been observed of each utterance.  The
\* websocket is open, and every startSpeaking call passes an onEnd callback.
Audio == [engine |-> engine, utterances |-> utterances, vadTimers |-> vadTimers, sent |-> sent,
          frames |-> frames]

\* what is observed of the frames: the number of consecutive loud frames
\* processed up to now (counted up to vadConsecutiveFrames), and whether a
\* quiet frame has been processed since voice activity was reported last.
\* Both start afresh when the engine is not listening.
NoFrames == [run |-> 0, quiet |-> TRUE]

CommitAudio(a) ==
    /\ engine' = a.engine
    /\ utterances' = a.utterances
    /\ vadTimers' = a.vadTimers
    /\ sent' = a.sent
    /\ frames' = IF a.engine.isListening THEN a.frames ELSE NoFrames
    /\ UNCHANGED scriptVars

\* utterance ids, in the order of the speak() calls
Ids(a) == DOMAIN a.utterances.status
\* an utterance handed to speak() that has neither completed nor been cancelled
InProgress(status) == status \in {"queued", "speaking"}

\* what is observed of one utterance: stopSpeaking() was called during it, the
\* reason of the interrupt() that stopped it ("no" if none), a later utterance
\* was started before it completed, the completion handler that ran for it
\* ("no", "end", "error"), its onEnd callback was invoked
NoEffects == [stopped |-> FALSE, interrupted |-> "no", superseded |-> FALSE,
              completed |-> "no", onEnd |-> FALSE]

\* --------------------------------------------------- window.speechSynthesis
\* speechSynthesis.speaking: true while an utterance is being spoken.  For an
\* utterance that is queued and has not begun, browsers differ: Chrome reports
\* true, the Web Speech API text and Firefox report false (pending is true).
synthesis_speaking(a) ==
    \E u \in Ids(a) :
        \/ a.utterances.status[u] = "speaking"
        \/ a.utterances.status[u] = "queued" /\ a.utterances.pendingIsSpeaking

\* speechSynthesis.cancel(): every utterance is removed from the queue; the
\* completion event of a removed utterance is delivered later
speechSynthesis_cancel(a) ==
    [a EXCEPT !.utterances.status =
        [u \in Ids(a) |-> IF InProgress(a.utterances.status[u]) THEN "cancelled"
                          ELSE a.utterances.status[u]]]

\* mutant: startListening() without its 'Already listening' guard
fd_startListening_unguarded(a) ==
    IF ~a.engine.audioContext THEN a
    ELSE [a EXCEPT !.engine.isListening = TRUE, !.engine.vadFrameCount = 0]

\* ------------------------------------------------------------ the methods
\* startListening() of the engine
fd_startListening(a) ==
    IF ~a.engine.audioContext \/ a.engine.isListening THEN a
    ELSE [a EXCEPT !.engine.isListening = TRUE, !.engine.vadFrameCount = 0]

\* stopListening() of the engine
fd_stopListening(a) ==
    [a EXCEPT !.engine.isListening = FALSE, !.engine.vadFrameCount = 0]

\* stopSpeaking()
stopSpeaking(a) ==
    LET a1 == IF synthesis_speaking(a) THEN speechSynthesis_cancel(a) ELSE a
    IN  [a1 EXCEPT !.engine.isSpeaking = FALSE,
                   !.engine.isPlaying = FALSE,
                   !.engine.currentUtterance = 0,
                   !.sent = [u \in Ids(a) |->
                                IF InProgress(a.utterances.status[u])
                                THEN [a.sent[u] EXCEPT !.stopped = TRUE]
                                ELSE a.sent[u]]]

\* startSpeaking(text, onEnd)
startSpeaking(a, text) ==
    IF text = "" THEN a
    ELSE LET a1 == stopSpeaking(a)
             seen == [u \in Ids(a1) |->
                        IF a1.utterances.status[u] # "done"
                        THEN [a1.sent[u] EXCEPT !.superseded = TRUE]
                        ELSE a1.sent[u]]
         IN  [a1 EXCEPT !.engine.isSpeaking = TRUE,
                        !.engine.isInterrupted = FALSE,
                        !.engine.currentUtterance = Len(a1.utterances.status) + 1,
                        !.utterances.status = Append(@, "queued"),
                        !.sent = Append(seen, NoEffects)]

\* interrupt(reason)
interrupt(a, reason) ==
    LET a1 == stopSpeaking([a EXCEPT !.engine.isInterrupted = TRUE])
        a2 == [a1 EXCEPT !.sent = [u \in Ids(a) |->
                                    IF InProgress(a.utterances.status[u])
                                    THEN [a1.sent[u] EXCEPT !.interrupted = reason]
                                    ELSE a1.sent[u]]]
    IN  fd_startListening(a2)

\* _onVoiceActivityDetected()
onVoiceActivityDetected(a) ==
    IF a.engine.vadDetected THEN a
    ELSE LET a1 == [a EXCEPT !.engine.vadDetected = TRUE]
             a2 == IF a1.engine.isSpeaking THEN interrupt(a1, "vad_detected") ELSE a1
         IN  [a2 EXCEPT !.vadTimers = @ + 1]

\* mutant: a frame at or below the threshold leaves the counter as it is
onaudioprocess_noreset(a, loud) ==
    IF ~a.engine.isListening \/ ~loud THEN a
    ELSE IF a.engine.vadFrameCount + 1 >= vadConsecutiveFrames
         THEN [onVoiceActivityDetected(a) EXCEPT !.engine.vadFrameCount = 0]
         ELSE [a EXCEPT !.engine.vadFrameCount = @ + 1]

\* mutant: the handler without its `if (!this.isListening) return`
onaudioprocess_unguarded(a, loud) ==
    IF ~loud THEN [a EXCEPT !.engine.vadFrameCount = 0]
    ELSE IF a.engine.vadFrameCount + 1 >= vadConsecutiveFrames
         THEN [onVoiceActivityDetected(a) EXCEPT !.engine.vadFrameCount = 0]
         ELSE [a EXCEPT !.engine.vadFrameCount = @ + 1]

\* processor.onaudioprocess; loud: the frame's RMS is above vadThreshold
onaudioprocess(a, loud) ==
    IF ~a.engine.isListening THEN a
    ELSE IF ~loud THEN [a EXCEPT !.engine.vadFrameCount = 0]
    ELSE IF a.engine.vadFrameCount + 1 >= vadConsecutiveFrames
         THEN [onVoiceActivityDetected(a) EXCEPT !.engine.vadFrameCount = 0]
         ELSE [a EXCEPT !.engine.vadFrameCount = @ + 1]

\* the frame is recorded: a is the engine after the frame, voice activity has
\* been reported if a timer was added to the pending ones
frame_observed(a, loud) ==
    IF ~engine.isListening THEN a
    ELSE [a EXCEPT !.frames =
            [run |-> IF ~loud THEN 0
                     ELSE IF @.run < vadConsecutiveFrames THEN @.run + 1 ELSE @.run,
             quiet |-> IF ~loud THEN TRUE
                       ELSE IF a.vadTimers > vadTimers THEN FALSE ELSE @.quiet]]

\* ---------------------------------------------- handlers of an utterance
\* utterance.onstart
utterance_onstart(a) == [a EXCEPT !.engine.isPlaying = TRUE]

\* utterance.onend of utterance u: 'tts_ended' is sent, onEnd is called
\* unless isInterrupted
utterance_onend(a, u) ==
    [a EXCEPT !.engine.isSpeaking = FALSE,
              !.engine.isPlaying = FALSE,
              !.engine.currentUtterance = 0,
              !.sent[u].completed = "end",
              !.sent[u].onEnd = ~a.engine.isInterrupted]

\* utterance.onerror of utterance u
utterance_onerror(a, u) ==
    [a EXCEPT !.engine.isSpeaking = FALSE,
              !.engine.isPlaying = FALSE,
              !.sent[u].completed = "error"]

\* ------------------------------------------------------------ the actions
AudioStep(a) == Len(a.utterances.status) <= MaxUtterances /\ CommitAudio(a)

\* initialize(): getUserMedia resolves (granted) or rejects
Initialize ==
    /\ ~engine.audioContext
    /\ \E granted \in BOOLEAN : AudioStep([Audio EXCEPT !.engine.audioContext = granted])

\* calls by the page
CallStartListening == AudioStep(fd_startListening(Audio))
CallStopListening == AudioStep(fd_stopListening(Audio))
CallStartSpeaking == \E text \in {"", "reply"} : AudioStep(startSpeaking(Audio, text))
CallStopSpeaking == AudioStep(stopSpeaking(Audio))
CallInterrupt == AudioStep(interrupt(Audio, "user_interrupt"))

\* an audio frame of the microphone
AudioProcess ==
    /\ engine.audioContext
    /\ \E loud \in BOOLEAN : AudioStep(frame_observed(onaudioprocess(Audio, loud), loud))

\* setTimeout(() => { this.captureState.vadDetected = false }, 1000)
VadResetTimer ==
    /\ vadTimers > 0
    /\ AudioStep([Audio EXCEPT !.vadTimers = @ - 1, !.engine.vadDetected = FALSE])

\* the synthesis engine begins the utterance at the head of its queue
SynthesisStart ==
    \E u \in Ids(Audio) :
        /\ utterances.status[u] = "queued"
        /\ \A v \in Ids(Audio) : v < u => ~InProgress(utterances.status[v])
        /\ AudioStep(utterance_onstart([Audio EXCEPT !.utterances.status[u] = "speaking"]))

\* the utterance has been spoken to its end
SynthesisEnd ==
    \E u \in Ids(Audio) :
        /\ utterances.status[u] = "speaking"
        /\ AudioStep(utterance_onend([Audio EXCEPT !.utterances.status[u] = "done"], u))

\* the synthesis engine fails (synthesis-failed, audio-busy, ...)
SynthesisError ==
    \E u \in Ids(Audio) :
        /\ InProgress(utterances.status[u])
        /\ AudioStep(utterance_onerror([Audio EXCEPT !.utterances.status[u] = "done"], u))

\* the completion of an utterance removed by cancel(): an end event, an error
\* event (interrupted / canceled), or no event, as the browser has it
SynthesisCancelled ==
    \E u \in Ids(Audio), event \in {"end", "error", "none"} :
        /\ utterances.status[u] = "cancelled"
        /\ LET a == [Audio EXCEPT !.utterances.status[u] = "done"]
           IN  AudioStep(CASE event = "end" -> utterance_onend(a, u)
                           [] event = "error" -> utterance_onerror(a, u)
                           [] OTHER -> a)

\* the engine after its constructor, in a browser whose speechSynthesis.speaking
\* is (is not) true for a queued utterance
EngineConstructed(pendingIsSpeaking) ==
    /\ engine = [audioContext |-> FALSE, isSpeaking |-> FALSE, isListening |-> FALSE,
                 isInterrupted |-> FALSE, isPlaying |-> FALSE, currentUtterance |-> 0,
                 vadDetected |-> FALSE, vadFrameCount |-> 0]
    /\ utterances = [status |-> <<>>, pendingIsSpeaking |-> pendingIsSpeaking]
    /\ vadTimers = 0
    /\ sent = <<>>
    /\ frames = NoFrames

InitEngine == \E pendingIsSpeaking \in BOOLEAN : EngineConstructed(pendingIsSpeaking)

NextEngine ==
    \/ Initialize
    \/ CallStartListening \/ CallStopListening
    \/ CallStartSpeaking \/ CallStopSpeaking \/ CallInterrupt
    \/ AudioProcess \/ VadResetTimer
    \/ SynthesisStart \/ SynthesisEnd \/ SynthesisError \/ SynthesisCancelled

\* the engine on a page whose script is idle
InitAudio == ScriptLoaded(TRUE) /\ InitEngine

SpecEngine == InitAudio /\ [][NextEngine]_vars

\* ===================================================================
\*                    script.js : specifications
\* ===================================================================
\* script.js on a page that has constructed the engine and does not use it
Init == InitScript /\ EngineConstructed(TRUE)

UserStep == MicButton \/ ContinuousShortcut \/ SendMessage \/ AlwaysListeningToggle

CommandStep ==
    \/ BackendReply
    \/ UtteranceOnEnd \/ UtteranceOnError \/ CancelledUtteranceCompletes
    \/ RecognitionOnStart \/ RecognitionOnResult \/ RecognitionOnError \/ RecognitionOnEnd
    \/ NoSpeechContinuousTimer \/ NoSpeechSingleTimer \/ EndRestartTimer
    \/ RetryTimer \/ ForceRetryTimer \/ DispatchTimer \/ ResumeTimer

WakeStep ==
    \/ WakeInitTimer \/ WakeOnStart \/ WakeOnResult \/ WakeOnError \/ WakeOnEnd
    \/ WakeErrorTimer \/ WakeEndTimer \/ WakePauseTimer \/ WakeCallbackTimer

\* the wake-word detector alone: the user, the backend and the engines of the
\* command pipeline deliver no event
SpecWake == Init /\ [][WakeStep]_vars

\* the command pipeline alone: the detector's engine delivers no event
NextCommand == UserStep \/ CommandStep

SpecCommand == Init /\ [][NextCommand]_vars

\* the command pipeline driven by voice only: nothing is typed, every message
\* is a finalized transcript
NextVoice == MicButton \/ ContinuousShortcut \/ AlwaysListeningToggle \/ CommandStep

SpecVoice == Init /\ [][NextVoice]_vars

\* the timer callbacks of the command pipeline
CommandTimerStep ==
    \/ NoSpeechContinuousTimer \/ NoSpeechSingleTimer \/ EndRestartTimer
    \/ RetryTimer \/ ForceRetryTimer \/ DispatchTimer \/ ResumeTimer

\* The command pipeline with input (the user, a recognition result, a failure
\* of the engine) arriving only while no timer of the pipeline is pending.
Quiet == Sum(timers, CommandTimers) = 0

NextQuiet ==
    \/ Quiet /\ (UserStep \/ RecognitionOnResult \/ RecognitionOnError)
    \/ BackendReply
    \/ UtteranceOnEnd \/ UtteranceOnError \/ CancelledUtteranceCompletes
    \/ RecognitionOnStart \/ RecognitionOnEnd
    \/ CommandTimerStep

\* A pending timer callback, or the start or end event of an engine that was
\* started, stopped or has failed, is eventually delivered.  Nothing is assumed
\* of the user, the backend or the utterance being spoken.
FairCommand ==
    /\ Init /\ [][NextQuiet]_vars
    /\ WF_vars(CommandTimerStep \/ RecognitionOnStart \/ CancelledUtteranceCompletes
                   \/ (recognition # "running" /\ RecognitionOnEnd))

\* The whole page: the command pipeline together with the wake-word detector.
\* Input (a click on the microphone button, a text, a recognition result, a
\* wake word) arrives while no timer is pending; the engines are started,
\* deliver results and end, and do not fail.
PageQuiet == Sum(timers, TimerKinds) = 0

WakeDetectorStep ==
    \/ WakeInitTimer \/ WakeOnStart \/ WakeOnEnd
    \/ WakeEndTimer \/ WakePauseTimer \/ WakeCallbackTimer

NextPage ==
    \/ PageQuiet /\ (MicButton \/ SendMessage \/ RecognitionOnResult \/ WakeOnResult)
    \/ BackendReply
    \/ UtteranceOnEnd \/ CancelledUtteranceCompletes
    \/ RecognitionOnStart \/ RecognitionOnEnd
    \/ EndRestartTimer \/ RetryTimer \/ ForceRetryTimer \/ DispatchTimer \/ ResumeTimer
    \/ WakeDetectorStep

SpecPage == Init /\ [][NextPage]_vars

\* The two capture components side by side: the audio engine with every call
\* and event it has, and the wake-word detector, whose engine does not fail.
NextCapture == NextEngine \/ WakeOnResult \/ WakeDetectorStep

SpecCapture == InitAudio /\ [][NextCapture]_vars

\* The command pipeline on a browser whose synthesis engine fails: every
\* utterance ends with an error event.  Input arrives while no timer of the
\* pipeline is pending.
NextSynthesisFails ==
    \/ Quiet /\ (UserStep \/ RecognitionOnResult \/ RecognitionOnError)
    \/ BackendReply
    \/ UtteranceOnError \/ CancelledUtteranceCompletes
    \/ RecognitionOnStart \/ RecognitionOnEnd
    \/ CommandTimerStep

SpecSynthesisFails == Init /\ [][NextSynthesisFails]_vars

\* The wake-word detector hearing one utterance: a few words, in capitals or
\* not, one or three blanks between them, a blank in front or not, delivered
\* as an interim or as a final result.
Words == {hey, <<"H", "E", "Y">>, <<"h", "e">>, hi, smart, smartii,
          <<"S", "m", "a", "r", "t", "i", "i">>, computer, <<"p", "l", "e", "a", "s", "e">>}

RECURSIVE Utterances(_)
Utterances(n) ==
    IF n = 1 THEN Words
    ELSE Utterances(n - 1)
            \cup {u \o b \o word : u \in Utterances(n - 1),
                                   b \in {space, space \o space \o space}, word \in Words}

Transcripts == Utterances(MaxWords) \cup {space \o u : u \in Utterances(MaxWords)}

InitHearing ==
    /\ \E transcript \in Transcripts : \E isFinal \in BOOLEAN :
            ScriptLoadedToHear(TRUE, [result |-> [transcript |-> transcript, isFinal |-> isFinal],
                                      handled |-> FALSE, called |-> FALSE, arg |-> <<>>])
    /\ EngineConstructed(TRUE)

NextHearing == WakeHears \/ WakeDetectorStep

SpecHearing == InitHearing /\ [][NextHearing]_vars

\* Waking up: the user switches listening on and off by hand, and the
\* detector hears wake words while the page is idle; both while no timer is
\* pending.  The timers fire, and the engines deliver the start event of a
\* start() and the end event of a stop(); no speech is recognized.
PageIdle ==
    /\ ~state.isListening /\ ~state.isSpeaking /\ recognition = "idle"
    /\ PageQuiet

NextWakeUp ==
    \/ PageQuiet /\ (MicButton \/ ContinuousShortcut)
    \/ PageIdle /\ WakeOnResults
    \/ WakeInitTimer \/ WakeOnStart \/ (wakeRecognition # "running" /\ WakeOnEnd)
    \/ WakePauseTimer \/ WakeCallbackTimer
    \/ RecognitionOnStart \/ (recognition # "running" /\ RecognitionOnEnd)
    \/ EndRestartTimer \/ RetryTimer \/ ForceRetryTimer

FairWakeUp ==
    /\ Init /\ [][NextWakeUp]_vars
    /\ WF_vars(WakePauseTimer \/ WakeCallbackTimer \/ RecognitionOnStart)

\* The command pipeline on a page loaded with alwaysListening set, whose
\* checkbox the user leaves alone: only a stop command clears the setting.
\* Input arrives while no timer of the pipeline is pending.
NextStopCommand ==
    \/ Quiet /\ (MicButton \/ ContinuousShortcut \/ SendMessage
                    \/ RecognitionOnResult \/ RecognitionOnError)
    \/ BackendReply
    \/ UtteranceOnEnd \/ UtteranceOnError \/ CancelledUtteranceCompletes
    \/ RecognitionOnStart \/ RecognitionOnEnd
    \/ CommandTimerStep

SpecStopCommand == InitAudio /\ [][NextStopCommand]_vars

\* Messages sent while earlier ones await the backend: the text box and the
\* send button stay usable during `await sendMessageToBackend`, and the
\* dispatch timer of a recognition result fires during it as well.
MaxAwaiting == 2

SendMessages ==
    /\ CommandRoom
    /\ \E text \in Texts :
        LET w == processUserMessage(World, text)
        IN  w.synthesis.stale <= MaxStale /\ w.inflight <= MaxAwaiting /\ Commit(w)

NextAwaiting ==
    \/ Quiet /\ (MicButton \/ SendMessages \/ RecognitionOnResult)
    \/ BackendReply
    \/ UtteranceOnEnd \/ CancelledUtteranceCompletes
    \/ RecognitionOnStart \/ RecognitionOnEnd
    \/ EndRestartTimer \/ RetryTimer \/ ForceRetryTimer \/ DispatchTimer \/ ResumeTimer

SpecAwaiting == Init /\ [][NextAwaiting]_vars

\* Starting and stopping capture by hand and sending messages, with the
\* engine's start and end events and the retry, restart and resume timers of
\* the command pipeline.  The user acts while no timer is pending; the engine
\* ends only when stopped.  Each pending timer fires, and each start or end
\* event that is due arrives.
NextRetry ==
    \/ Quiet /\ (MicButton \/ ContinuousShortcut \/ SendMessage)
    \/ BackendReply \/ UtteranceOnEnd \/ CancelledUtteranceCompletes
    \/ RecognitionOnStart \/ (recognition # "running" /\ RecognitionOnEnd)
    \/ EndRestartTimer \/ RetryTimer \/ ForceRetryTimer \/ ResumeTimer

FairRetry ==
    /\ Init /\ [][NextRetry]_vars
    /\ WF_vars(RetryTimer) /\ WF_vars(ForceRetryTimer) /\ WF_vars(EndRestartTimer)
    /\ WF_vars(ResumeTimer) /\ WF_vars(CancelledUtteranceCompletes)
    /\ WF_vars(RecognitionOnStart) /\ WF_vars(recognition # "running" /\ RecognitionOnEnd)

\* The page used hands-free: it is loaded with alwaysListening set and the
\* user only speaks.  While no timer is pending the engines hear a wake word
\* or a command, or end by themselves; they do not fail.  The utterance being
\* spoken ends, the resume and retry timers fire, and the detector's engine
\* delivers the end event of a stop(), after which the detector's restart
\* timer fires.  Nothing is assumed of the backend or of the other events.
NextHandsFree ==
    \/ PageQuiet /\ (RecognitionOnResult \/ WakeOnResult \/ RecognitionOnEnd \/ WakeOnEnd)
    \/ BackendReply
    \/ UtteranceOnEnd \/ CancelledUtteranceCompletes
    \/ RecognitionOnStart \/ (recognition # "running" /\ RecognitionOnEnd)
    \/ EndRestartTimer \/ RetryTimer \/ ForceRetryTimer \/ DispatchTimer \/ ResumeTimer
    \/ WakeInitTimer \/ WakeOnStart \/ (wakeRecognition # "running" /\ WakeOnEnd)
    \/ WakeEndTimer \/ WakePauseTimer \/ WakeCallbackTimer

FairHandsFree ==
    /\ InitAudio /\ [][NextHandsFree]_vars
    /\ WF_vars(UtteranceOnEnd) /\ WF_vars(ResumeTimer \/ ForceRetryTimer \/ RetryTimer)
    /\ WF_vars((wakeRecognition # "running" /\ WakeOnEnd) \/ WakeEndTimer)

\* ===================================================================
\*                           the claims
\* ===================================================================

\* the utterance started by the last speakText has not completed
UtteranceInProgress == synthesis.cur = "speaking"

\* C1: mutual exclusion in script.js -- while the utterance started by
\* speakText is in progress the command recognition engine is not running.
C1_MutualExclusion == UtteranceInProgress => ~Capturing(recognition)

\* C2: barge-in ordering -- the step in which voice activity is detected while
\* isSpeaking is true (vadDetected rises) cancels synthesis, so that no
\* utterance is left in progress, and ends with isListening true and
\* isSpeaking and playbackState.isPlaying false; and the completion of an
\* interrupted utterance is suppressed (no 'tts_ended', no onEnd).
C2_BargeInOrdering ==
    /\ [][(engine.isSpeaking /\ ~engine.vadDetected /\ engine'.vadDetected)
            => /\ \A u \in DOMAIN utterances'.status : ~InProgress(utterances'.status[u])
               /\ engine'.isListening /\ ~engine'.isSpeaking /\ ~engine'.isPlaying]_vars
    /\ [](\A u \in DOMAIN sent :
            sent[u].interrupted = "vad_detected"
                => (sent[u].completed # "end" /\ ~sent[u].onEnd))

\* C3: no stale completion -- for an utterance during which stopSpeaking() or
\* interrupt() was called, no 'tts_ended' is sent and onEnd is not invoked.
C3_NoStaleCompletion ==
    \A u \in DOMAIN sent : sent[u].stopped => (sent[u].completed # "end" /\ ~sent[u].onEnd)

\* C4: utterance ordering -- no completion handler (onend or onerror) runs for
\* an utterance after a later utterance has been started.
C4_UtteranceOrdering ==
    \A u \in DOMAIN sent : sent[u].superseded => sent[u].completed = "no"

\* C5: a post-speech resume timer that was pending when the user stopped
\* listening does not start capture when it fires.
C5_SupersededTimerInert ==
    [][(history.superseded > 0 /\ timers'["resume"] < timers["resume"])
        => /\ state'.isListening => state.isListening
           /\ Capturing(recognition') => Capturing(recognition)]_vars

\* C6: stop is final -- after stopListening() and until the next explicit
\* activation no callback and no timer turns state.isListening on again or
\* starts the engine.
C6_StopIsFinal == history.deactivated => (~state.isListening /\ recognition # "starting")

\* C7: no-speech recovery -- whenever the engine has reported 'no-speech'
\* and state.isListening has stayed true since (history.recovering), the
\* engine is eventually started again, in either mode, any number of times.
C7_NoSpeechRecovery ==
    [](history.recovering => <>(Capturing(recognition) \/ ~state.isListening))

\* C7 witness: after a no-speech termination (its 300 ms timer is still
\* pending) the 100 ms timer of onend has started the engine again.
C7_Witness ==
    /\ timers["noSpeechContinuous"] > 0 /\ state.isListening /\ state.continuousListening
    /\ recognition = "starting" /\ ~state.isRecognitionActive

\* C8: bounded restarts -- a transient failure of the wake-word engine that
\* comes after more than MaxRestartsPerWindow restarts schedules no restart.
C8_BoundedRestarts ==
    [][(history'.wakeFailures > history.wakeFailures
            /\ history'.wakeFailures > MaxRestartsPerWindow + 1)
        => timers'["wakeError"] <= timers["wakeError"]]_vars

\* C9: permission denial is terminal -- once the wake-word engine has reported
\* 'not-allowed', start() is not called on it again.
C9_DenialIsTerminal == history.wakeDenied => wakeRecognition # "starting"

\* C10: no stuck state -- with a command awaiting the backend or an utterance
\* being spoken, some step other than the backend's answer, the synthesis
\* engine's completion event or a user action (a watchdog) can be taken.
C10_NoStuckState ==
    (state.isSpeaking \/ inflight > 0) =>
        ENABLED (CommandTimerStep \/ RecognitionOnStart \/ RecognitionOnEnd)

\* C11: capture is stopped before dispatch -- the step that hands a finalized
\* transcript to the backend leaves state.isListening and
\* state.isRecognitionActive false and the engine stopped, and while the reply
\* is awaited no step other than a manual activation turns any of them on.
C11_StoppedBeforeDispatch ==
    [][(inflight' > 0 /\ ~(MicButton \/ ContinuousShortcut))
        => IF inflight' > inflight
           THEN /\ ~state'.isListening /\ ~state'.isRecognitionActive
                /\ ~Capturing(recognition')
           ELSE /\ state'.isListening => state.isListening
                /\ state'.isRecognitionActive => state.isRecognitionActive
                /\ Capturing(recognition') => Capturing(recognition)]_vars

\* C12: post-speech transition -- the completion of an utterance starts no
\* capture itself; with alwaysListening it arms the guard delay, and while the
\* guard delay runs (a resume timer is pending) no step other than a manual
\* activation starts capture; without alwaysListening it arms no timer.
C12_PostSpeechTransition ==
    [][/\ (synthesis.cur = "speaking" /\ synthesis'.cur = "none" /\ ~state'.isSpeaking)
            => /\ recognition' = recognition
               /\ timers'["resume"] = timers["resume"] + (IF state.alwaysListening THEN 1 ELSE 0)
       /\ (timers["resume"] > 0 /\ timers'["resume"] > 0
                /\ ~(MicButton \/ ContinuousShortcut))
            => (Capturing(recognition') => Capturing(recognition))]_vars

\* C13: single capture engine -- in every reachable state the command
\* recognition and the recognition of the wake-word detector are not both
\* started (between start() and the end event) at the same time.
C13_SingleCaptureEngine == ~(Capturing(recognition) /\ Capturing(wakeRecognition))

\* C14: idempotence of the capture components -- in every reachable state,
\* startListening() of the audio engine while it is listening and start() of
\* the wake-word detector while it is active leave every field, timer and
\* engine as they are, and so do stopListening() and stop() while the
\* component is inactive.
C14_CaptureIdempotent ==
    /\ engine.isListening => fd_startListening(Audio) = Audio
    /\ ~engine.isListening => fd_stopListening(Audio) = Audio
    /\ detector.isActive => detector_start(World) = World
    /\ ~detector.isActive => detector_stop(World) = World

\* the engine is listening in the middle of a run of loud frames, and the
\* detector is active while its recognition has ended
C14_Witness ==
    /\ engine.isListening /\ engine.vadFrameCount = vadConsecutiveFrames - 1
    /\ detector.isActive /\ wakeRecognition = "idle"

\* C15: idempotence of command capture -- a call of startListening() while
\* state.isRecognitionActive is true (Ctrl+Shift+L during single-shot
\* listening, the post-speech timer) leaves the engine and the flags
\* isListening, isRecognitionActive and continuousListening as they are, and
\* stopListening() while every flag is false leaves the flags false.
C15_CommandCaptureIdempotent ==
    [][/\ (state.isRecognitionActive
              /\ ((~state.continuousListening /\ ContinuousShortcut) \/ ResumeTimer))
            => (recognition' = recognition /\ state' = state)
       /\ (~state.isListening /\ ~state.isRecognitionActive /\ ~state.continuousListening)
            => stopListening(World).state = state]_vars

C17_VadEdgeTriggered == [][vadTimers' > vadTimers => frames.quiet]_vars

\* C18: the VAD state is reset on a capture restart -- when the engine starts
\* listening, the frame counter is zero and captureState.vadDetected is false.
C18_VadResetOnRestart ==
    [][(~engine.isListening /\ engine'.isListening)
            => (engine'.vadFrameCount = 0 /\ ~engine'.vadDetected)]_vars

\* C19: Interrupted is reachable only from Speaking -- isInterrupted becomes
\* true only in a step before which isSpeaking was true.
C19_InterruptedOnlyFromSpeaking ==
    [][(~engine.isInterrupted /\ engine'.isInterrupted) => engine.isSpeaking]_vars

\* C20: a playback failure goes to Idle -- the error event of the current
\* utterance clears the speaking flag, starts no capture and arms no timer.
C20_PlaybackFailureToIdle ==
    [][UtteranceOnError
            => /\ ~state'.isSpeaking
               /\ recognition' = recognition /\ ~state'.isListening
               /\ timers' = timers]_vars

\* C21: 'already started' is success -- when recognition.start() inside
\* startListening() throws because the engine is started (the 500 ms
\* force-retry timer is armed in that branch only), state.isListening is true
\* afterwards.
C21_AlreadyStartedIsSuccess ==
    [][(timers'["forceRetrySingle"] + timers'["forceRetryContinuous"]
            > timers["forceRetrySingle"] + timers["forceRetryContinuous"])
          => state'.isListening]_vars

\* C22: wake-phrase matching -- once a result has been handled, the callback
\* has been called exactly if a configured phrase occurs in the lower-cased
\* transcript with runs of blanks read as one blank, or a fuzzy pattern
\* applies; where a configured phrase occurs, the value the callback was
\* called with is a configured phrase that occurs in the transcript; and
\* "he smart" is no match.
C22_WakePhraseMatching ==
    (heard.handled /\ heard.result.transcript # <<>>) =>
        LET lower == trim(toLowerCase(heard.result.transcript))
            text == SelectSeq([i \in DOMAIN lower |->
                                    IF lower[i] = " " /\ lower[i - 1] = " " THEN "" ELSE lower[i]],
                              LAMBDA c : c # "")
        IN  /\ heard.called <=> ((\E phrase \in wakeWords : includes(text, phrase)) \/ fuzzyPatterns(lower))
            /\ (heard.called /\ \E phrase \in wakeWords : includes(text, phrase))
                    => (heard.arg \in wakeWords /\ includes(text, heard.arg))
            /\ text = <<"h", "e">> \o space \o smart => ~heard.called

\* C23: the wake word activates capture exactly once -- a wake-word event that
\* arrives while the page is idle leads to a started command recognition; the
\* callback timer that finds the page idle starts it, and the callback timers
\* of the other matching results of the event, which find it started, leave
\* the engine and the flags alone.
C23_WakeActivatesOnce ==
    /\ [][WakeCallbackTimer =>
            IF Capturing(recognition)
            THEN recognition' = recognition /\ state' = state
                    /\ timers' = [timers EXCEPT !["wakeCallback"] = @ - 1]
            ELSE Capturing(recognition') /\ state'.isListening]_vars
    /\ (timers["wakeCallback"] > 0 ~> Capturing(recognition))

\* two results of one event matched: one callback has started the command
\* recognition, the callback timer of the other is still pending
C23_Witness ==
    /\ timers["wakeCallback"] > 0 /\ Capturing(recognition)
    /\ state.isListening /\ ~detector.isActive

\* C24: continuous mode persists across replies -- once continuous listening
\* is on, state.continuousListening stays true through the dispatch of a
\* command, its reply and the resumption of capture; only the user (the
\* microphone button, Ctrl+Shift+L and the retries of their startListening
\* call, a stop command typed or spoken) or a failure of the engine switches
\* it off.
C24_ContinuousModePersists ==
    [][(state.continuousListening /\ ~state'.continuousListening)
            => (MicButton \/ ContinuousShortcut \/ SendMessage \/ DispatchTimer
                    \/ RetryTimer \/ ForceRetryTimer \/ RecognitionOnError)]_vars

\* C25: stop command -- the step that handles a stop command (the only one
\* that clears alwaysListening here) leaves isListening and
\* continuousListening false and sends nothing to the backend; from then on,
\* while listening has not been switched on by hand again, no step other than
\* the microphone button or the keyboard shortcut sets isListening or starts
\* the recognition.
C25_StopCommand ==
    [][/\ (state.alwaysListening /\ ~state'.alwaysListening)
            => (~state'.isListening /\ ~state'.continuousListening /\ inflight' <= inflight)
       /\ (~state.alwaysListening /\ history.deactivated
                /\ ~(MicButton \/ ContinuousShortcut))
            => /\ state'.isListening => state.isListening
               /\ Capturing(recognition') => Capturing(recognition)]_vars

\* C26: one utterance at a time.  A call that begins an utterance (the number
\* of utterances handed to speechSynthesis.speak grows) leaves every earlier
\* utterance neither queued nor playing, the new one queued, and the engine
\* with currentUtterance the new one and isSpeaking true; hence at most one
\* utterance is queued or playing at any time.
C26_OneUtteranceAtATime ==
    /\ [](Cardinality({u \in DOMAIN utterances.status : InProgress(utterances.status[u])}) <= 1)
    /\ [][Len(utterances.status') > Len(utterances.status)
            => /\ \A u \in DOMAIN utterances.status : ~InProgress(utterances.status'[u])
               /\ utterances.status'[Len(utterances.status')] = "queued"
               /\ engine'.currentUtterance = Len(utterances.status')
               /\ engine'.isSpeaking]_vars

\* C27: only a non-empty final transcript leaves Listening.  A recognition
\* result whose final text is empty or white space leaves state.isListening
\* and the engine as they were and sends nothing to the backend, in single-shot
\* and in continuous mode.
C27_BlankTranscriptKeepsListening ==
    [][\A finalTranscript \in {"", "blank"} :
            (/\ recognition \in {"running", "stopping"}
             /\ Commit(recognition_onresult(World, finalTranscript)))
                => /\ state'.isListening = state.isListening
                   /\ recognition' = recognition
                   /\ inflight' = inflight]_vars

\* C28: wake-phrase matching is applied to finalized fragments only.  The
\* wake-word callback has been invoked only for a result that is final.
C28_WakeOnFinalOnly == heard.called => heard.result.isFinal

\* C29: the wake-word detector re-arms itself.  When the 1000 ms pause timer
\* set by a detection fires and the detector is still paused (nothing has
\* started it in between), detection resumes: the detector is active and its
\* engine is started.
C29_DetectorRearms ==
    [][(WakePauseTimer /\ ~detector.isActive)
            => (detector'.isActive /\ Capturing(wakeRecognition'))]_vars

\* C30: the outward playback events are well paired.  'tts_ended' is sent only
\* for an utterance that is being spoken (it has started and was not
\* cancelled), and an utterance that has started and is over has had a
\* terminating notification: 'tts_ended', or the 'interrupt' that stopped it.
C30_PlaybackEventsPaired ==
    [][\A u \in DOMAIN utterances.status :
        /\ (sent'[u].completed = "end" /\ sent[u].completed # "end")
                => utterances.status[u] = "speaking"
        /\ (utterances.status[u] = "speaking" /\ utterances.status'[u] = "done")
                => (sent'[u].completed = "end" \/ sent'[u].interrupted # "no")]_vars

\* C31: one command in flight.  At any time at most one processUserMessage
\* call is awaiting the backend.
C31_OneCommandInFlight == inflight <= 1

\* C32: barge-in is never lost.  In every reachable state of the engine
\* playbackState.isPlaying implies isSpeaking, so that voice activity during
\* audible playback finds isSpeaking true and interrupts.
C32_PlayingImpliesSpeaking == engine.isPlaying => engine.isSpeaking

\* C33: startListening terminates when recognition is already active.  Once
\* the 300 ms retry timer of startListening is pending, a state with no retry
\* timer pending is eventually reached: the stop-and-retry cycle does not
\* repeat forever.
C33_RetryTerminates ==
    (timers["retryContinuous"] + timers["retrySingle"] > 0)
        ~> (timers["retryContinuous"] + timers["retrySingle"] = 0)

\* C34: no double start from restart timers.  Whenever a restart timer of the
\* command recognition calls recognition.start() (the 300 ms no-speech timers
\* and the 100 ms timer of onend, when their conditions hold), the engine is
\* idle, so that start() does not throw.
C34_RestartTimersStartIdle ==
    [][(\/ EndRestartTimer /\ state.isListening /\ ~state.isRecognitionActive
        \/ NoSpeechContinuousTimer /\ state.continuousListening /\ state.isListening
        \/ NoSpeechSingleTimer /\ state.isListening /\ ~state.continuousListening)
            => recognition = "idle"]_vars

\* C35: always-listening mode never goes deaf.  While alwaysListening is set,
\* once the reply to a command is being spoken, the wake-word detector's
\* engine or the command recognition engine is eventually capturing again
\* (or alwaysListening has been switched off).
C35_NeverDeaf ==
    (state.alwaysListening /\ synthesis.cur = "speaking")
        ~> (Capturing(recognition) \/ Capturing(wakeRecognition) \/ ~state.alwaysListening)

\* the reply has been spoken to its end, nothing is capturing and the detector
\* is stopped; the resume timer is pending
C35_Witness ==
    /\ state.alwaysListening /\ synthesis.cur = "none" /\ timers["resume"] > 0
    /\ ~Capturing(recognition) /\ ~Capturing(wakeRecognition) /\ ~detector.isActive

\* C36: audio frames are ignored while not listening.  In every reachable
\* state in which isListening is false, processing a frame, loud or not,
\* leaves the engine as it is: its counters and flags, the utterances
\* (nothing is interrupted), the pending timers (no voice activity is
\* reported) and what has been sent.
C36_FramesIgnoredWhenNotListening ==
    ~engine.isListening => \A loud \in BOOLEAN : onaudioprocess(Audio, loud) = Audio
\* a frame arrives at an initialized engine that is speaking and not listening
C36_Witness ==
    /\ engine.audioContext /\ ~engine.isListening
    /\ engine.isSpeaking /\ engine.isPlaying /\ vadTimers > 0

\* C37: a failed detector start leaves it inactive.  In every reachable state
\* in which start() would return false (the detector is already active, or
\* its engine is not idle and recognition.start() throws), isActive after the
\* call has the value it had before.
C37_FailedStartKeepsIsActive ==
    (detector.isActive \/ wakeRecognition # "idle")
        => detector_start(World).detector.isActive = detector.isActive

\* C38: flag consistency in script.js.  In every reachable state
\* isRecognitionActive implies isListening.
C38_ActiveImpliesListening == state.isRecognitionActive => state.isListening
\* both flags set while the engine is being stopped: the start event of a
\* start() arrived after stop()
C38_Witness == state.isRecognitionActive /\ state.isListening /\ recognition = "stopping"
\* C38 as stated: in every reachable state isRecognitionActive implies
\* isListening, and continuousListening implies isListening.
C38_FlagConsistency ==
    /\ state.isRecognitionActive => state.isListening
    /\ state.continuousListening => state.isListening

====
